---- MODULE Spec2Model ----
(* Model of src/handler.py: the freight-load rate comparison handler.      *)
(*                                                                         *)
(* Numbers.  Money is counted in cents, so every load field and every      *)
(* market rateUsd is an integer; a rate per mile is the exact fraction     *)
(* n/d (d > 0).  A JSON/dict field is a record [t, v]: t = "absent" (key   *)
(* missing), "num" (a number v) or "bad" (a non-numeric value, on which    *)
(* Python's comparison with 0 raises TypeError).                           *)
EXTENDS Integers, Sequences, FiniteSets

VARIABLES
    job,        \* the job handed to handler
    pc,         \* position of the handler
    i,          \* 1-based index of the match the for loop is at
    result,     \* result["processedMatches"] built so far
    calls,      \* indices of the matches for which requests.post was issued
    resps,      \* responses returned so far, one per issued call
    examined,   \* number of matches the loop body has started on
    ret,        \* what handler returned (or that it raised)
    load,       \* pure functions: the load record
    loadRate,   \* pure functions: get_rate_comparison's load_rate
    marketRate, \* pure functions: get_rate_comparison's market_rate
    equipment_code, \* pure functions: map_equipment_code_to_rateview's argument
    out         \* pure functions: the last result

vars == <<job, pc, i, result, calls, resps, examined, ret,
          load, loadRate, marketRate, equipment_code, out>>

batchVars == <<job, pc, i, result, calls, resps, examined, ret>>
pureVars == <<load, loadRate, marketRate, equipment_code, out>>

(***************************************************************************)
(* Bounds                                                                  *)
(***************************************************************************)
MaxMatches == 2
MaxVal == 2

(***************************************************************************)
(* Values                                                                  *)
(***************************************************************************)
Absent == [t |-> "absent", v |-> 0]
Num(x) == [t |-> "num", v |-> x]
Bad == [t |-> "bad", v |-> 0]

\* dict.get(key, 0): the default 0 stands in for a missing key
GetNum(f) == IF f.t = "absent" THEN Num(0) ELSE f

\* Optional[float]: None, or the fraction n/d
NoneRate == [some |-> FALSE, n |-> 0, d |-> 1]
Rate(n, d) == [some |-> TRUE, n |-> n, d |-> d]

\* round(x, 2) of x = num/den hundredths.  Python rounds the binary double,
\* so on a decimal tie the result is either neighbour: tie \in {0, 1}.
Round2(num, den, tie) ==
    LET q == num \div den
        r == num - q * den
    IN  IF 2 * r < den THEN q
        ELSE IF 2 * r > den THEN q + 1
        ELSE q + tie

(***************************************************************************)
(* map_equipment_code_to_rateview                                          *)
(***************************************************************************)
van_codes == {"V", "VA", "VB", "VC", "V2", "VZ", "VH", "VI", "VN", "VG",
              "VL", "VV", "VM", "VT", "VF", "VR", "VP", "VW"}
reefer_codes == {"R", "RA", "R2", "RZ", "RN", "RL", "RM", "RG", "RV", "RP"}
flatbed_codes == {"F", "FA", "FT", "FM", "FD", "FR", "FO", "FN", "FS"}

\* map_equipment_code_to_rateview with VAN as the default for unknown codes
map_equipment_code_to_rateview_defaultVan(code) ==
    IF code \in van_codes THEN "VAN"
    ELSE IF code \in reefer_codes THEN "REEFER"
    ELSE IF code \in flatbed_codes THEN "FLATBED"
    ELSE "VAN"

map_equipment_code_to_rateview(code) ==
    IF code \in van_codes THEN "VAN"
    ELSE IF code \in reefer_codes THEN "REEFER"
    ELSE IF code \in flatbed_codes THEN "FLATBED"
    ELSE "FLATBED"

(***************************************************************************)
(* A load record: the four numeric fields the extractors read.             *)
(***************************************************************************)
Load(est, miles, priv, lb) ==
    [estimatedRatePerMile |-> est, miles |-> miles,
     privateRateUsd |-> priv, loadBoardRateUsd |-> lb]

\* does a comparison with 0 in get_broker_rate_per_mile raise TypeError?
get_broker_rate_per_mile_raises(l) ==
    LET est == GetNum(l.estimatedRatePerMile)
        miles == GetNum(l.miles)
        priv == GetNum(l.privateRateUsd)
        lb == GetNum(l.loadBoardRateUsd)
    IN  IF est.t = "bad" THEN TRUE
        ELSE IF est.v > 0 THEN FALSE
        ELSE IF miles.t = "bad" THEN TRUE
        ELSE IF miles.v <= 0 THEN FALSE
        ELSE IF priv.t = "bad" THEN TRUE
        ELSE IF priv.v > 0 THEN FALSE
        ELSE lb.t = "bad"

\* get_broker_rate_per_mile trying the load-board rate before the private one
get_broker_rate_per_mile_loadBoardFirst(l) ==
    LET est == GetNum(l.estimatedRatePerMile).v
        trip_length_miles == GetNum(l.miles).v
        private_rate == GetNum(l.privateRateUsd).v
        load_board_rate == GetNum(l.loadBoardRateUsd).v
    IN  IF est > 0 THEN Rate(est, 1)
        ELSE IF trip_length_miles <= 0 THEN NoneRate
        ELSE IF load_board_rate > 0 THEN Rate(load_board_rate, trip_length_miles)
        ELSE IF private_rate > 0 THEN Rate(private_rate, trip_length_miles)
        ELSE NoneRate

get_broker_rate_per_mile(l) ==
    LET est == GetNum(l.estimatedRatePerMile).v
        trip_length_miles == GetNum(l.miles).v
        private_rate == GetNum(l.privateRateUsd).v
        load_board_rate == GetNum(l.loadBoardRateUsd).v
    IN  IF est > 0 THEN Rate(est, 1)
        ELSE IF trip_length_miles <= 0 THEN NoneRate
        ELSE IF private_rate > 0 THEN Rate(private_rate, trip_length_miles)
        ELSE IF load_board_rate > 0 THEN Rate(load_board_rate, trip_length_miles)
        ELSE NoneRate

get_total_load_amount_raises(l) ==
    LET priv == GetNum(l.privateRateUsd)
        lb == GetNum(l.loadBoardRateUsd)
    IN  IF priv.t = "bad" THEN TRUE
        ELSE IF priv.v > 0 THEN FALSE
        ELSE lb.t = "bad"

\* None is [some |-> FALSE]; otherwise the amount in cents
get_total_load_amount(l) ==
    LET private_rate == GetNum(l.privateRateUsd).v
        load_board_rate == GetNum(l.loadBoardRateUsd).v
    IN  IF private_rate > 0 THEN [some |-> TRUE, v |-> private_rate]
        ELSE IF load_board_rate > 0 THEN [some |-> TRUE, v |-> load_board_rate]
        ELSE [some |-> FALSE, v |-> 0]

Unavailable == [amount |-> "Not Available", cents |-> 0,
                calculation_method |-> "insufficient_data"]
Pay(cents, method) == [amount |-> "num", cents |-> cents,
                       calculation_method |-> method]

calculate_driver_pay_raises(l) ==
    \/ get_total_load_amount_raises(l)
    \/ /\ ~get_total_load_amount(l).some
       /\ \/ get_broker_rate_per_mile_raises(l)
          \/ /\ get_broker_rate_per_mile(l).some
             /\ GetNum(l.miles).t = "bad"

\* calculate_driver_pay preferring rate per mile x miles to the total amount
calculate_driver_pay_rateFirst(l, tie) ==
    LET trip_length_miles == GetNum(l.miles).v
        total_load_amount == get_total_load_amount(l)
        rate_per_mile == get_broker_rate_per_mile(l)
    IN  IF rate_per_mile.some /\ rate_per_mile.n > 0 /\ trip_length_miles > 0
        THEN Pay(Round2(rate_per_mile.n * trip_length_miles, rate_per_mile.d * 4, tie),
                 "calculated_from_rate_per_mile")
        ELSE IF total_load_amount.some /\ total_load_amount.v > 0
        THEN Pay(Round2(total_load_amount.v, 4, tie), "percentage_of_total")
        ELSE Unavailable

calculate_driver_pay(l, tie) ==
    LET trip_length_miles == GetNum(l.miles).v
        total_load_amount == get_total_load_amount(l)
        rate_per_mile == get_broker_rate_per_mile(l)
    IN  IF total_load_amount.some /\ total_load_amount.v > 0
        THEN Pay(Round2(total_load_amount.v, 4, tie), "percentage_of_total")
        ELSE IF rate_per_mile.some /\ rate_per_mile.n > 0 /\ trip_length_miles > 0
        THEN Pay(Round2(rate_per_mile.n * trip_length_miles, rate_per_mile.d * 4, tie),
                 "calculated_from_rate_per_mile")
        ELSE Unavailable

(***************************************************************************)
(* get_rate_comparison                                                     *)
(***************************************************************************)
NotAvailable == [t |-> "Not Available", n |-> 0, d |-> 1]
Reported(r) == [t |-> "num", n |-> r.n, d |-> r.d]
Missing(r) == (~r.some) \/ r.n <= 0

\* get_rate_comparison classifying by the sign of the rounded difference
get_rate_comparison_roundedSign(load_rate, market_rate, tie) ==
    IF Missing(load_rate) \/ Missing(market_rate)
    THEN [broker_rate_per_mile |->
              IF Missing(load_rate) THEN NotAvailable ELSE Reported(load_rate),
          market_rate_per_mile |->
              IF Missing(market_rate) THEN NotAvailable ELSE Reported(market_rate),
          difference_percentage |-> [t |-> "N/A", v |-> 0],
          comparison |-> "Rate comparison not possible"]
    ELSE LET sign == load_rate.n * market_rate.d - market_rate.n * load_rate.d
             shown == Round2(sign * 10000, market_rate.n * load_rate.d, tie)
         IN  [broker_rate_per_mile |-> Reported(load_rate),
              market_rate_per_mile |-> Reported(market_rate),
              difference_percentage |-> [t |-> "num", v |-> shown],
              comparison |-> IF shown > 0 THEN "above market rate"
                             ELSE IF shown < 0 THEN "below market rate"
                             ELSE "At market rate"]

\* get_rate_comparison blanking both rates when no comparison is possible
get_rate_comparison_bothBlank(load_rate, market_rate, tie) ==
    IF Missing(load_rate) \/ Missing(market_rate)
    THEN [broker_rate_per_mile |-> NotAvailable,
          market_rate_per_mile |-> NotAvailable,
          difference_percentage |-> [t |-> "N/A", v |-> 0],
          comparison |-> "Rate comparison not possible"]
    ELSE LET sign == load_rate.n * market_rate.d - market_rate.n * load_rate.d
         IN  [broker_rate_per_mile |-> Reported(load_rate),
              market_rate_per_mile |-> Reported(market_rate),
              difference_percentage |->
                  [t |-> "num",
                   v |-> Round2(sign * 10000, market_rate.n * load_rate.d, tie)],
              comparison |-> IF sign > 0 THEN "above market rate"
                             ELSE IF sign < 0 THEN "below market rate"
                             ELSE "At market rate"]

get_rate_comparison(load_rate, market_rate, tie) ==
    IF Missing(load_rate) \/ Missing(market_rate)
    THEN [broker_rate_per_mile |->
              IF Missing(load_rate) THEN NotAvailable ELSE Reported(load_rate),
          market_rate_per_mile |->
              IF Missing(market_rate) THEN NotAvailable ELSE Reported(market_rate),
          difference_percentage |-> [t |-> "N/A", v |-> 0],
          comparison |-> "Rate comparison not possible"]
    ELSE LET sign == load_rate.n * market_rate.d - market_rate.n * load_rate.d
         IN  [broker_rate_per_mile |-> Reported(load_rate),
              market_rate_per_mile |-> Reported(market_rate),
              difference_percentage |->
                  [t |-> "num",
                   v |-> Round2(sign * 10000, market_rate.n * load_rate.d, tie)],
              comparison |-> IF sign > 0 THEN "above market rate"
                             ELSE IF sign < 0 THEN "below market rate"
                             ELSE "At market rate"]

(***************************************************************************)
(* Inputs of a batch: matches and the outcomes of requests.post            *)
(***************************************************************************)
\* origin is matchingAssetInfo.origin, dest is matchingAssetInfo.destination.place:
\* "absent" (key missing), "empty" (an empty mapping) or "place"
Match(origin, dest, code, l) ==
    [origin |-> origin, dest |-> dest, equipmentType |-> code, l |-> l]

BatchLoads ==
    { Load(Num(2), Absent, Absent, Absent),
      Load(Absent, Num(2), Num(6), Absent),
      Load(Absent, Absent, Absent, Absent) }

Matches ==
    { Match("absent", "place", "V", Load(Num(2), Absent, Absent, Absent)),
      Match("empty", "place", "V", Load(Num(2), Absent, Absent, Absent)),
      Match("place", "absent", "V", Load(Num(2), Absent, Absent, Absent)),
      Match("place", "empty", "V", Load(Num(2), Absent, Absent, Absent)),
      Match("place", "place", "", Load(Bad, Absent, Absent, Absent)) }
    \cup { Match("place", "place", "RZ", l) : l \in BatchLoads }

\* the first element of rateResponses, as far as the handler reads it
ResponseObj(rate, perMile, rateUsd, esc) ==
    [rate |-> rate, perMile |-> perMile, rateUsd |-> rateUsd, escalation |-> esc]

\* what requests.post does: status 0 stands for a raised transport exception,
\* body is what response.json() gives
Outcome(status, body, hasRR, obj) ==
    [status |-> status, body |-> body, hasRR |-> hasRR, obj |-> obj]

NoObj == ResponseObj("absent", "absent", Absent, FALSE)

Outcomes ==
    { Outcome(500, "dict", FALSE, NoObj),
      Outcome(302, "dict", TRUE, ResponseObj("map", "map", Num(2), FALSE)),
      Outcome(0, "dict", FALSE, NoObj),
      Outcome(200, "nondict", FALSE, NoObj),
      Outcome(200, "dict", FALSE, NoObj),
      Outcome(200, "dict", TRUE, ResponseObj("absent", "absent", Absent, TRUE)),
      Outcome(200, "dict", TRUE, ResponseObj("null", "absent", Absent, FALSE)),
      Outcome(200, "dict", TRUE, ResponseObj("empty", "absent", Absent, TRUE)),
      Outcome(200, "dict", TRUE, ResponseObj("int", "absent", Absent, FALSE)),
      Outcome(200, "dict", TRUE, ResponseObj("map", "int", Absent, TRUE)),
      Outcome(200, "dict", TRUE, ResponseObj("map", "map", Absent, FALSE)),
      Outcome(200, "dict", TRUE, ResponseObj("map", "map", Num(2), FALSE)),
      Outcome(201, "dict", TRUE, ResponseObj("map", "map", Num(3), TRUE)),
      Outcome(200, "dict", TRUE, ResponseObj("map", "map", Bad, FALSE)) }

(***************************************************************************)
(* call_rateview_api                                                       *)
(***************************************************************************)
NoError == [msg |-> "", status |-> 0]
ApiError(status) == [msg |-> "API Error: <status>", status |-> status]
ExceptionError == [msg |-> "Exception: <message>", status |-> 0]
ParseError == [msg |-> "Error processing rate data: <message>", status |-> 0]

\* call_rateview_api without the status check
call_rateview_api_noStatusCheck(o) ==
    IF o.status = 0 THEN [kind |-> "error", error |-> ExceptionError, o |-> o]
    ELSE [kind |-> "json", error |-> NoError, o |-> o]

\* the dict call_rateview_api returns: an error dict, or the JSON body
call_rateview_api(o) ==
    IF o.status = 0 THEN [kind |-> "error", error |-> ExceptionError, o |-> o]
    ELSE IF o.status \in {200, 201}
    THEN [kind |-> "json", error |-> NoError, o |-> o]
    ELSE [kind |-> "error", error |-> ApiError(o.status), o |-> o]

(***************************************************************************)
(* process_loads_and_compare_rates, lines 203-230: reading the response    *)
(***************************************************************************)
NoMarketData == [kind |-> "None", error |-> NoError, escalation |-> FALSE]
ErrorMarker(e) == [kind |-> "error", error |-> e, escalation |-> FALSE]
ResponseData(obj) == [kind |-> "obj", error |-> NoError, escalation |-> obj.escalation]

Parsed(rate, data, rd, raised) ==
    [market_rate_per_mile |-> rate, market_data |-> data, rate_data |-> rd,
     raised |-> raised]

\* the three locals after the try block; rate_data is the kind of the rate
\* payload ("None" when it was never assigned or is null); raised tells
\* whether the except clause of line 229 ran
ParseResponse(r) ==
    IF r.kind = "error" THEN Parsed(Absent, ErrorMarker(r.error), "None", FALSE)
    ELSE IF r.o.body # "dict" THEN Parsed(Absent, ErrorMarker(ParseError), "None", TRUE)
    ELSE IF ~r.o.hasRR THEN Parsed(Absent, NoMarketData, "None", FALSE)
    ELSE LET obj == r.o.obj IN
         CASE obj.rate = "absent" -> Parsed(Absent, ResponseData(obj), "None", FALSE)
           [] obj.rate = "null" -> Parsed(Absent, ErrorMarker(ParseError), "None", TRUE)
           [] obj.rate = "empty" -> Parsed(Absent, ResponseData(obj), "empty", FALSE)
           [] obj.rate = "int" -> Parsed(Absent, ErrorMarker(ParseError), "int", TRUE)
           [] obj.rate = "map" ->
                IF obj.perMile = "absent"
                THEN Parsed(Absent, ResponseData(obj), "map", FALSE)
                ELSE IF obj.perMile = "int"
                THEN Parsed(Absent, ErrorMarker(ParseError), "map", TRUE)
                ELSE Parsed(obj.rateUsd, ResponseData(obj), "map", FALSE)

\* market_rate_per_mile as get_rate_comparison's Optional[float]
MarketRateOf(f) == IF f.t = "num" THEN Rate(f.v, 1) ELSE NoneRate

\* rate_data is truthy
Truthy(rd) == rd \in {"map", "int"}

(***************************************************************************)
(* process_loads_and_compare_rates, lines 235-274: the output entry        *)
(***************************************************************************)
NoKey == [kind |-> "none", error |-> NoError, perMile |-> "absent",
          rateUsd |-> Absent, escalation |-> FALSE]

MarketData(r) ==
    LET p == ParseResponse(r) IN
    IF Truthy(p.rate_data)
    THEN [kind |-> "rate", error |-> NoError, perMile |-> r.o.obj.perMile,
          rateUsd |-> r.o.obj.rateUsd,
          escalation |-> p.market_data.kind = "obj" /\ p.market_data.escalation]
    ELSE IF p.market_data.kind = "error"
    THEN [NoKey EXCEPT !.kind = "error", !.error = p.market_data.error]
    ELSE NoKey

\* lines 233 and 256-265 raise: the market rate is not a number, or the
\* rate payload has no .get
MergeRaises(r) ==
    LET p == ParseResponse(r) IN
    \/ p.market_rate_per_mile.t = "bad"
    \/ p.rate_data = "int"

ProcessedMatch(pos, m, r, tiePay, tieDiff) ==
    [pos |-> pos,
     equipmentType |-> [code |-> m.equipmentType,
                        rateviewType |-> map_equipment_code_to_rateview(m.equipmentType)],
     tripMiles |-> GetNum(m.l.miles).v,
     rateComparison |-> get_rate_comparison(get_broker_rate_per_mile(m.l),
                            MarketRateOf(ParseResponse(r).market_rate_per_mile), tieDiff),
     driver_pay |-> calculate_driver_pay(m.l, tiePay),
     marketData |-> MarketData(r)]

(***************************************************************************)
(* Jobs                                                                    *)
(***************************************************************************)
\* freight_data: "missing" (absent or falsy), "nonmap" (a truthy value that
\* is not a mapping) or "batch"
FreightData(kind, mc, ms) == [kind |-> kind, matchCounts |-> mc, matches |-> ms]

SeqsUpTo(S, n) == UNION { [1..k -> S] : k \in 0..n }

Batches ==
    { FreightData("batch", mc, ms) :
          mc \in {"absent", "counts"}, ms \in SeqsUpTo(Matches, MaxMatches) }

\* hasInput: job["input"] can be read; isDict: job_input is a dict;
\* token: access_token is present and truthy
Job(hasInput, isDict, fd, token) ==
    [hasInput |-> hasInput, isDict |-> isDict, fd |-> fd, token |-> token]

NoBatch == FreightData("missing", "absent", << >>)

Jobs ==
    { Job(FALSE, FALSE, NoBatch, FALSE), Job(TRUE, FALSE, NoBatch, FALSE) }
    \cup { Job(TRUE, TRUE, fd, tk) :
               fd \in {NoBatch, FreightData("nonmap", "absent", << >>)} \cup Batches,
               tk \in BOOLEAN }

(***************************************************************************)
(* handler's result                                                        *)
(***************************************************************************)
NoReturn == [kind |-> "none", error |-> "", matchCounts |-> "absent",
             processedMatches |-> << >>]
Raised == [NoReturn EXCEPT !.kind = "raised"]
ErrorResult(msg) == [NoReturn EXCEPT !.kind = "error", !.error = msg]
BatchResult(mc, pm) ==
    [kind |-> "ok", error |-> "",
     matchCounts |-> IF mc = "absent" THEN "{}" ELSE mc,
     processedMatches |-> pm]

PureIdle == [fn |-> "none", rate |-> NoneRate, pay |-> Unavailable,
             equipment |-> "",
             cmp |-> get_rate_comparison(NoneRate, NoneRate, 0)]

(***************************************************************************)
(* handler, process_freight_data, process_loads_and_compare_rates          *)
(***************************************************************************)
Init ==
    /\ job \in Jobs
    /\ pc = "start"
    /\ i = 0
    /\ result = << >>
    /\ calls = << >>
    /\ resps = << >>
    /\ examined = 0
    /\ ret = NoReturn
    /\ load = Load(Absent, Absent, Absent, Absent)
    /\ loadRate = NoneRate
    /\ marketRate = NoneRate
    /\ equipment_code = ""
    /\ out = PureIdle

\* Validate with the two parameter checks in the other order
Validate_tokenFirst ==
    /\ pc = "start"
    /\ IF ~job.hasInput
       THEN pc' = "raised" /\ ret' = Raised
       ELSE IF ~job.isDict
       THEN pc' = "done" /\ ret' = ErrorResult("Input must be a dictionary")
       ELSE IF ~job.token
       THEN pc' = "done" /\ ret' = ErrorResult("Missing required parameter: access_token")
       ELSE IF job.fd.kind = "missing"
       THEN pc' = "done" /\ ret' = ErrorResult("Missing required parameter: freight_data")
       ELSE pc' = "process" /\ ret' = ret
    /\ UNCHANGED <<job, i, result, calls, resps, examined, pureVars>>

\* handler, lines 301-316
Validate ==
    /\ pc = "start"
    /\ IF ~job.hasInput
       THEN pc' = "raised" /\ ret' = Raised
       ELSE IF ~job.isDict
       THEN pc' = "done" /\ ret' = ErrorResult("Input must be a dictionary")
       ELSE IF job.fd.kind = "missing"
       THEN pc' = "done" /\ ret' = ErrorResult("Missing required parameter: freight_data")
       ELSE IF ~job.token
       THEN pc' = "done" /\ ret' = ErrorResult("Missing required parameter: access_token")
       ELSE pc' = "process" /\ ret' = ret
    /\ UNCHANGED <<job, i, result, calls, resps, examined, pureVars>>

\* handler line 320 and process_loads_and_compare_rates lines 171-176
StartBatch ==
    /\ pc = "process"
    /\ IF job.fd.kind = "nonmap"
       THEN pc' = "done" /\ ret' = ErrorResult("Processing error: <message>")
            /\ UNCHANGED <<i, result>>
       ELSE pc' = "loop" /\ i' = 1 /\ result' = << >> /\ ret' = ret
    /\ UNCHANGED <<job, calls, resps, examined, pureVars>>

\* Skipped testing the origin only
Skipped_originOnly(m) == m.origin # "place"

\* not origin or not destination_place (line 187)
Skipped(m) == m.origin # "place" \/ m.dest # "place"

\* lines 178-188: continue
Skip ==
    /\ pc = "loop"
    /\ i <= Len(job.fd.matches)
    /\ Skipped(job.fd.matches[i])
    /\ examined' = examined + 1
    /\ i' = i + 1
    /\ UNCHANGED <<job, pc, result, calls, resps, ret, pureVars>>

\* Examine reusing the previous response when the match repeats the previous one
Examine_cached ==
    /\ pc = "loop"
    /\ i <= Len(job.fd.matches)
    /\ ~Skipped(job.fd.matches[i])
    /\ examined' = examined + 1
    /\ IF \/ get_broker_rate_per_mile_raises(job.fd.matches[i].l)
          \/ calculate_driver_pay_raises(job.fd.matches[i].l)
       THEN pc' = "done" /\ ret' = ErrorResult("Processing error: <message>")
            /\ UNCHANGED <<calls, resps>>
       ELSE IF i > 1 /\ Len(resps) > 0 /\ job.fd.matches[i] = job.fd.matches[i - 1]
       THEN pc' = "merge" /\ resps' = Append(resps, resps[Len(resps)])
            /\ UNCHANGED <<calls, ret>>
       ELSE pc' = "call" /\ calls' = Append(calls, i) /\ UNCHANGED <<resps, ret>>
    /\ UNCHANGED <<job, i, result, pureVars>>

\* lines 178-201: up to the moment requests.post is issued
Examine ==
    /\ pc = "loop"
    /\ i <= Len(job.fd.matches)
    /\ ~Skipped(job.fd.matches[i])
    /\ examined' = examined + 1
    /\ IF \/ get_broker_rate_per_mile_raises(job.fd.matches[i].l)
          \/ calculate_driver_pay_raises(job.fd.matches[i].l)
       THEN pc' = "done" /\ ret' = ErrorResult("Processing error: <message>")
            /\ calls' = calls
       ELSE pc' = "call" /\ calls' = Append(calls, i) /\ ret' = ret
    /\ UNCHANGED <<job, i, result, resps, pureVars>>

\* call_rateview_api returns (lines 151-158)
ApiReturn ==
    /\ pc = "call"
    /\ \E o \in Outcomes : resps' = Append(resps, call_rateview_api(o))
    /\ pc' = "merge"
    /\ UNCHANGED <<job, i, result, calls, examined, ret, pureVars>>

\* Merge returning what was processed so far when an exception escapes
Merge_partialResult ==
    /\ pc = "merge"
    /\ LET r == resps[Len(resps)] IN
       IF MergeRaises(r)
       THEN pc' = "done" /\ ret' = BatchResult(job.fd.matchCounts, result)
            /\ UNCHANGED <<i, result>>
       ELSE /\ \E tiePay \in {0, 1}, tieDiff \in {0, 1} :
                 result' = Append(result,
                     ProcessedMatch(i, job.fd.matches[i], r, tiePay, tieDiff))
            /\ i' = i + 1
            /\ pc' = "loop"
            /\ ret' = ret
    /\ UNCHANGED <<job, calls, resps, examined, pureVars>>

\* lines 203-274
Merge ==
    /\ pc = "merge"
    /\ LET r == resps[Len(resps)] IN
       IF MergeRaises(r)
       THEN pc' = "done" /\ ret' = ErrorResult("Processing error: <message>")
            /\ UNCHANGED <<i, result>>
       ELSE /\ \E tiePay \in {0, 1}, tieDiff \in {0, 1} :
                 result' = Append(result,
                     ProcessedMatch(i, job.fd.matches[i], r, tiePay, tieDiff))
            /\ i' = i + 1
            /\ pc' = "loop"
            /\ ret' = ret
    /\ UNCHANGED <<job, calls, resps, examined, pureVars>>

\* line 276 and handler line 321
Finish ==
    /\ pc = "loop"
    /\ i > Len(job.fd.matches)
    /\ pc' = "done"
    /\ ret' = BatchResult(job.fd.matchCounts, result)
    /\ UNCHANGED <<job, i, result, calls, resps, examined, pureVars>>

Next == Validate \/ StartBatch \/ Skip \/ Examine \/ ApiReturn \/ Merge \/ Finish

Spec == Init /\ [][Next]_vars

(***************************************************************************)
(* The pure functions applied to drawn inputs                              *)
(***************************************************************************)
FieldValues == {Absent} \cup { Num(x) : x \in -1..MaxVal }
PureLoads == { Load(e, m, p, b) : e \in FieldValues, m \in FieldValues,
                                  p \in FieldValues, b \in FieldValues }
\* two rates within 0.005% of the rate 1 (products stay below 2^31)
NearOneRates == { Rate(30001, 30000), Rate(29999, 30000) }

PureRates == {NoneRate} \cup { Rate(x, 1) : x \in -1..MaxVal } \cup NearOneRates

PureInit ==
    /\ job = Job(FALSE, FALSE, NoBatch, FALSE)
    /\ pc = "pure"
    /\ i = 0
    /\ result = << >>
    /\ calls = << >>
    /\ resps = << >>
    /\ examined = 0
    /\ ret = NoReturn
    /\ load \in PureLoads
    /\ loadRate \in PureRates
    /\ marketRate \in PureRates
    /\ equipment_code = ""
    /\ out = PureIdle

ApplyBrokerRate ==
    /\ pc = "pure"
    /\ out' = [PureIdle EXCEPT !.fn = "get_broker_rate_per_mile",
                               !.rate = get_broker_rate_per_mile(load)]
    /\ UNCHANGED <<batchVars, load, loadRate, marketRate, equipment_code>>

ApplyDriverPay ==
    /\ pc = "pure"
    /\ \E tie \in {0, 1} :
           out' = [PureIdle EXCEPT !.fn = "calculate_driver_pay",
                                   !.pay = calculate_driver_pay(load, tie)]
    /\ UNCHANGED <<batchVars, load, loadRate, marketRate, equipment_code>>

ApplyCompare ==
    /\ pc = "pure"
    /\ \E tie \in {0, 1} :
           out' = [PureIdle EXCEPT !.fn = "get_rate_comparison",
                                   !.cmp = get_rate_comparison(loadRate, marketRate, tie)]
    /\ UNCHANGED <<batchVars, load, loadRate, marketRate, equipment_code>>

PureNext == ApplyBrokerRate \/ ApplyDriverPay \/ ApplyCompare

PureSpec == PureInit /\ [][PureNext]_vars

(***************************************************************************)
(* map_equipment_code_to_rateview applied to drawn equipment codes         *)
(***************************************************************************)
\* van and reefer codes in lower case
LowerCaseCodes ==
    {"v", "va", "vb", "vc", "v2", "vz", "vh", "vi", "vn", "vg",
     "vl", "vv", "vm", "vt", "vf", "vr", "vp", "vw",
     "r", "ra", "r2", "rz", "rn", "rl", "rm", "rg", "rv", "rp"}

\* the empty string and codes of no table
UnknownCodes == {"", "X", "SD", "DD", "VAN", "REEFER", "FLATBED", " V", "V ", "Rz"}

EquipmentCodes ==
    van_codes \cup reefer_codes \cup flatbed_codes \cup LowerCaseCodes \cup UnknownCodes

EquipInit ==
    /\ job = Job(FALSE, FALSE, NoBatch, FALSE)
    /\ pc = "equipment"
    /\ i = 0
    /\ result = << >>
    /\ calls = << >>
    /\ resps = << >>
    /\ examined = 0
    /\ ret = NoReturn
    /\ load = Load(Absent, Absent, Absent, Absent)
    /\ loadRate = NoneRate
    /\ marketRate = NoneRate
    /\ equipment_code \in EquipmentCodes
    /\ out = PureIdle

ApplyMapEquipment ==
    /\ pc = "equipment"
    /\ out' = [PureIdle EXCEPT !.fn = "map_equipment_code_to_rateview",
                               !.equipment = map_equipment_code_to_rateview(equipment_code)]
    /\ UNCHANGED <<batchVars, load, loadRate, marketRate, equipment_code>>

EquipNext == ApplyMapEquipment

EquipSpec == EquipInit /\ [][EquipNext]_vars

(***************************************************************************)
(* Properties of the job boundary and of the batch                         *)
(***************************************************************************)
\* the job reaches process_freight_data
PassesValidation ==
    job.hasInput /\ job.isDict /\ job.fd.kind # "missing" /\ job.token

\* C1: the input is checked in the order "is a mapping", freight_data,
\* access_token; the first failing check alone decides the error returned,
\* and after a failed check no match is examined and no lookup is issued.
C1_ValidationOrder ==
    (job.hasInput /\ ~PassesValidation) =>
        /\ pc \in {"start", "done"}
        /\ examined = 0
        /\ calls = << >>
        /\ result = << >>
        /\ pc = "done" =>
             ret = IF ~job.isDict
                   THEN ErrorResult("Input must be a dictionary")
                   ELSE IF job.fd.kind = "missing"
                   THEN ErrorResult("Missing required parameter: freight_data")
                   ELSE ErrorResult("Missing required parameter: access_token")

\* both parameters are missing and the freight_data error was returned
C1_Witness ==
    /\ pc = "done"
    /\ job.hasInput /\ job.isDict /\ job.fd.kind = "missing" /\ ~job.token
    /\ ret = ErrorResult("Missing required parameter: freight_data")

\* C2: whatever the job, handler returns a mapping and never lets an
\* exception reach its caller.
C2_AlwaysReturnsMapping ==
    /\ pc # "raised"
    /\ pc = "done" => ret.kind \in {"error", "ok"}

BothPresent(m) == m.origin # "absent" /\ m.dest # "absent"
BothNonEmpty(m) == m.origin = "place" /\ m.dest = "place"

RECURSIVE KeptFrom(_, _, _)
\* the indices k..Len(ms), in input order, of the matches whose places are
\* both present (nonEmpty = FALSE) or both non-empty (nonEmpty = TRUE)
KeptFrom(ms, k, nonEmpty) ==
    IF k > Len(ms) THEN << >>
    ELSE IF (IF nonEmpty THEN BothNonEmpty(ms[k]) ELSE BothPresent(ms[k]))
    THEN <<k>> \o KeptFrom(ms, k + 1, nonEmpty)
    ELSE KeptFrom(ms, k + 1, nonEmpty)

Positions(pm) == [k \in 1..Len(pm) |-> pm[k].pos]

\* each output entry is the entry of the input match at its position
EntriesOfTheirMatches(pm) ==
    \A k \in 1..Len(pm) :
        /\ pm[k].pos \in 1..Len(job.fd.matches)
        /\ pm[k].equipmentType.code = job.fd.matches[pm[k].pos].equipmentType
        /\ pm[k].tripMiles = GetNum(job.fd.matches[pm[k].pos].l.miles).v

\* C3 as stated: after a successful batch, processedMatches is, in input
\* order, exactly the matches whose origin and destination place are present.
C3_Original ==
    (pc = "done" /\ ret.kind = "ok") =>
        /\ Positions(ret.processedMatches) = KeptFrom(job.fd.matches, 1, FALSE)
        /\ EntriesOfTheirMatches(ret.processedMatches)

\* C3 amended: after a successful batch, processedMatches is, in input order,
\* exactly the matches whose origin and destination place are both present
\* and non-empty mappings; every other match is dropped without an error.
C3_SurvivorsInOrder ==
    (pc = "done" /\ ret.kind = "ok") =>
        /\ Positions(ret.processedMatches) = KeptFrom(job.fd.matches, 1, TRUE)
        /\ EntriesOfTheirMatches(ret.processedMatches)

\* a batch of two in which the first match is dropped and the second kept
C3_Witness ==
    /\ pc = "done" /\ ret.kind = "ok"
    /\ Len(job.fd.matches) = 2
    /\ ~BothNonEmpty(job.fd.matches[1])
    /\ Positions(ret.processedMatches) = <<2>>

\* the lookup for the k-th output entry failed (non-2xx or transport failure)
LookupFailed(k) == resps[k].o.status \notin {200, 201}

\* C4: a failed lookup (non-2xx status or transport failure) never aborts the
\* batch: the merge step after it appends that match's entry, with the
\* lookup's error as marketData and a "comparison not possible"
\* rateComparison; every entry is a function of its own match and its own
\* lookup only, and is never changed by what happens to later matches.
C4_LookupFailureIsPerMatch ==
    /\ [](\A k \in 1..Len(result) :
            /\ result[k].pos = calls[k]
            /\ \E a \in {0, 1}, b \in {0, 1} :
                 result[k] = ProcessedMatch(calls[k], job.fd.matches[calls[k]],
                                            resps[k], a, b)
            /\ LookupFailed(k) =>
                 /\ result[k].marketData.kind = "error"
                 /\ result[k].marketData.error =
                        IF resps[k].o.status = 0 THEN ExceptionError
                        ELSE ApiError(resps[k].o.status)
                 /\ result[k].rateComparison.comparison = "Rate comparison not possible"
                 /\ result[k].rateComparison.difference_percentage.t = "N/A"
                 /\ result[k].rateComparison.market_rate_per_mile = NotAvailable)
    /\ [][ /\ (pc = "merge" /\ LookupFailed(Len(resps))) =>
                (pc' = "loop" /\ Len(result') = Len(result) + 1 /\ ret' = ret)
           /\ \A k \in 1..Len(result) :
                pc # "start" => (Len(result') >= k /\ result'[k] = result[k])
           /\ (pc' = "done" /\ ret'.kind = "ok") => ret'.processedMatches = result ]_vars

\* a finished batch whose first lookup returned HTTP 500 and whose second
\* match got its market data all the same
C4_Witness ==
    /\ pc = "done" /\ ret.kind = "ok"
    /\ Len(ret.processedMatches) = 2
    /\ resps[1].o.status = 500
    /\ ret.processedMatches[1].marketData.error = ApiError(500)
    /\ ret.processedMatches[2].marketData.kind = "rate"

\* C5: when reading one lookup response raises (the except clause of the try
\* block runs), that match's entry carries marketData = {error: ...} and the
\* batch goes on.
C5_ParseErrorIsPerMatch ==
    /\ \A k \in 1..Len(result) :
         ParseResponse(resps[k]).raised => result[k].marketData.kind = "error"
    /\ (pc = "done" /\ Len(resps) > Len(result)) =>
         ~ParseResponse(resps[Len(resps)]).raised

\* an exception escaped the per-match handling
Escaped ==
    \/ job.fd.kind = "nonmap"
    \/ /\ i \in 1..Len(job.fd.matches)
       /\ Len(calls) = Len(resps)
       /\ ~Skipped(job.fd.matches[i])
       /\ \/ get_broker_rate_per_mile_raises(job.fd.matches[i].l)
          \/ calculate_driver_pay_raises(job.fd.matches[i].l)
    \/ /\ Len(resps) > Len(result)
       /\ MergeRaises(resps[Len(resps)])

\* C6: when an exception escapes the per-match handling, handler returns
\* exactly {error: "Processing error: <message>"}: no matchCounts and no
\* processedMatches, whatever had been processed before.
C6_EscapedExceptionDiscardsAll ==
    (pc = "done" /\ PassesValidation /\ Escaped) =>
        /\ ret = ErrorResult("Processing error: <message>")
        /\ ret.matchCounts = "absent"
        /\ ret.processedMatches = << >>

\* the exception escaped on the second match, after the first was processed
C6_Witness ==
    /\ pc = "done" /\ PassesValidation /\ Escaped
    /\ i = 2
    /\ Len(result) = 1
    /\ ret.kind = "error"

(***************************************************************************)
(* Properties of the extractors, the pay estimate and the comparison       *)
(***************************************************************************)
\* the numeric value of a load field, 0 when the key is missing
Val(f) == GetNum(f).v

\* c is n/d rounded to the nearest integer
IsRounded(c, n, d) ==
    /\ 2 * (c * d - n) <= d
    /\ 2 * (n - c * d) <= d

\* the fraction r is present and equals n/d
IsRate(r, n, d) == r.some /\ r.n * d = n * r.d

\* C7: the pay estimate is 25% of the total amount (private-network rateUsd
\* if > 0, else load-board rateUsd if > 0) with method percentage_of_total
\* whenever there is a total, whatever the trip length; otherwise 25% of
\* rate x miles with method calculated_from_rate_per_mile when the
\* broker-rate extractor yields a rate and miles > 0; otherwise the
\* unavailable sentinel with method insufficient_data.
C7_DriverPayPolicy ==
    out.fn = "calculate_driver_pay" =>
        LET priv == Val(load.privateRateUsd)
            lb == Val(load.loadBoardRateUsd)
            miles == Val(load.miles)
            rate == get_broker_rate_per_mile(load)
        IN  IF priv > 0 \/ lb > 0
            THEN /\ out.pay.calculation_method = "percentage_of_total"
                 /\ out.pay.amount = "num"
                 /\ IsRounded(out.pay.cents, IF priv > 0 THEN priv ELSE lb, 4)
            ELSE IF rate.some /\ miles > 0
            THEN /\ out.pay.calculation_method = "calculated_from_rate_per_mile"
                 /\ out.pay.amount = "num"
                 /\ IsRounded(out.pay.cents, rate.n * miles, rate.d * 4)
            ELSE /\ out.pay.amount = "Not Available"
                 /\ out.pay.calculation_method = "insufficient_data"

\* a load with a total amount and a usable rate per mile: the total wins
C7_Witness ==
    /\ out.fn = "calculate_driver_pay"
    /\ Val(load.privateRateUsd) > 0
    /\ Val(load.estimatedRatePerMile) > 0
    /\ Val(load.miles) > 0
    /\ out.pay.calculation_method = "percentage_of_total"

\* C8: the broker rate per mile is estimatedRatePerMile if > 0; else absent
\* when miles <= 0; else private rateUsd / miles if that rateUsd > 0; else
\* load-board rateUsd / miles if that rateUsd > 0; else absent.  So it is
\* absent whenever miles <= 0 and estimatedRatePerMile <= 0.
C8_BrokerRateOrder ==
    out.fn = "get_broker_rate_per_mile" =>
        LET est == Val(load.estimatedRatePerMile)
            priv == Val(load.privateRateUsd)
            lb == Val(load.loadBoardRateUsd)
            miles == Val(load.miles)
        IN  /\ est > 0 => IsRate(out.rate, est, 1)
            /\ (est <= 0 /\ miles <= 0) => ~out.rate.some
            /\ (est <= 0 /\ miles > 0 /\ priv > 0) => IsRate(out.rate, priv, miles)
            /\ (est <= 0 /\ miles > 0 /\ priv <= 0 /\ lb > 0) =>
                   IsRate(out.rate, lb, miles)
            /\ (est <= 0 /\ miles > 0 /\ priv <= 0 /\ lb <= 0) => ~out.rate.some

\* no estimated rate, both totals present and different: the private one is used
C8_Witness ==
    /\ out.fn = "get_broker_rate_per_mile"
    /\ Val(load.estimatedRatePerMile) <= 0
    /\ Val(load.miles) > 1
    /\ Val(load.privateRateUsd) > 0
    /\ Val(load.loadBoardRateUsd) > Val(load.privateRateUsd)
    /\ IsRate(out.rate, Val(load.privateRateUsd), Val(load.miles))

\* a side of the comparison is absent or not positive
Unusable(r) == r = NoneRate \/ (r.some /\ r.n <= 0)

\* C9: when either side is absent or <= 0, the difference is "N/A", the
\* classification is "comparison not possible", and each reported rate is
\* "Not Available" exactly when its own side is absent or <= 0, its value
\* otherwise.
C9_ComparisonNotPossible ==
    (out.fn = "get_rate_comparison" /\ (Unusable(loadRate) \/ Unusable(marketRate))) =>
        /\ out.cmp.difference_percentage.t = "N/A"
        /\ out.cmp.comparison = "Rate comparison not possible"
        /\ out.cmp.broker_rate_per_mile.t = "Not Available" <=> Unusable(loadRate)
        /\ out.cmp.market_rate_per_mile.t = "Not Available" <=> Unusable(marketRate)
        /\ ~Unusable(loadRate) =>
               /\ out.cmp.broker_rate_per_mile.n = loadRate.n
               /\ out.cmp.broker_rate_per_mile.d = loadRate.d
        /\ ~Unusable(marketRate) =>
               /\ out.cmp.market_rate_per_mile.n = marketRate.n
               /\ out.cmp.market_rate_per_mile.d = marketRate.d

\* compare(0, 2): broker unavailable, market reported as 2
C9_Witness ==
    /\ out.fn = "get_rate_comparison"
    /\ loadRate = Rate(0, 1)
    /\ marketRate = Rate(2, 1)
    /\ out.cmp.broker_rate_per_mile.t = "Not Available"
    /\ out.cmp.market_rate_per_mile = Reported(Rate(2, 1))
    /\ out.cmp.comparison = "Rate comparison not possible"

\* C10: an entry's marketData is the rate subset, with escalation exactly
\* when the first response object carries one, if the lookup produced a rate
\* payload; {error: <message>} if the lookup produced an error and no rate
\* payload; and missing otherwise.
C10_MarketDataThreeWay ==
    \A k \in 1..Len(result) :
        LET r == resps[k]
            md == result[k].marketData
            hasRate == /\ r.o.status \in {200, 201} /\ r.o.body = "dict"
                       /\ r.o.hasRR /\ r.o.obj.rate = "map"
            hasError == r.o.status \notin {200, 201} \/ ParseResponse(r).raised
        IN  IF hasRate
            THEN md.kind = "rate" /\ md.escalation = r.o.obj.escalation
            ELSE IF hasError
            THEN md.kind = "error"
            ELSE md.kind = "none"

(***************************************************************************)
(* Properties of the equipment mapper                                      *)
(***************************************************************************)
\* C11: the mapper returns VAN for every code of the van set, REEFER for
\* every code of the reefer set and FLATBED for every other string: the
\* flatbed codes, the empty string, unknown codes and van or reefer codes in
\* another case; it always returns one of the three.
C11_EquipmentMapperTotal ==
    out.fn = "map_equipment_code_to_rateview" =>
        /\ out.equipment \in {"VAN", "REEFER", "FLATBED"}
        /\ out.equipment = "VAN" <=> equipment_code \in van_codes
        /\ out.equipment = "REEFER" <=> equipment_code \in reefer_codes
        /\ equipment_code \in flatbed_codes \cup LowerCaseCodes \cup UnknownCodes =>
               out.equipment = "FLATBED"

\* a van code in lower case was mapped to FLATBED
C11_Witness ==
    /\ out.fn = "map_equipment_code_to_rateview"
    /\ equipment_code = "vz"
    /\ out.equipment = "FLATBED"

(***************************************************************************)
(* Properties of the outbound calls                                        *)
(***************************************************************************)
\* how many times requests.post was issued for the match at index k
CallCount(k) == Cardinality({ a \in 1..Len(calls) : calls[a] = k })

\* calls are issued in strictly increasing input order: none is repeated
CallsInInputOrder ==
    \A a \in 1..Len(calls), b \in 1..Len(calls) : a < b => calls[a] < calls[b]

\* C12 as stated: in a batch, the lookup is called exactly once for each
\* match that is not skipped and never for a skipped one, in input order.
C12_Original ==
    (pc = "done" /\ PassesValidation /\ job.fd.kind = "batch") =>
        /\ CallsInInputOrder
        /\ \A k \in 1..Len(job.fd.matches) :
             CallCount(k) = IF Skipped(job.fd.matches[k]) THEN 0 ELSE 1

\* C12 amended: the lookup is called exactly once for each non-skipped match
\* the loop has finished, at most once for the match it is at (once exactly
\* when the lookup was reached), and never for a skipped match or for a match
\* the loop has not reached - which includes every match after one on which
\* an exception escaped; so a successful batch has exactly one call per
\* non-skipped match.  A call is never repeated, also after a failure or for
\* a repeated match, and a call is issued only when every earlier call has
\* returned, in input order.
C12_OneCallPerProcessedMatch ==
    /\ [](/\ CallsInInputOrder
          /\ Len(resps) <= Len(calls)
          /\ Len(calls) <= Len(resps) + 1
          /\ \A k \in 1..Len(job.fd.matches) :
               CallCount(k) =
                   IF Skipped(job.fd.matches[k]) \/ k > i THEN 0
                   ELSE IF k < i THEN 1
                   ELSE IF \/ pc \in {"call", "merge"}
                           \/ (pc = "done" /\ Len(resps) > Len(result))
                   THEN 1 ELSE 0
          /\ (pc = "done" /\ ret.kind = "ok") =>
               calls = KeptFrom(job.fd.matches, 1, TRUE))
    /\ [][ /\ calls' # calls =>
                /\ Len(resps) = Len(calls)
                /\ calls' = Append(calls, i)
                /\ ~Skipped(job.fd.matches[i])
           /\ resps' # resps =>
                /\ Len(calls) = Len(resps) + 1
                /\ Len(resps') = Len(calls)
                /\ calls' = calls ]_vars

\* two identical matches, the first lookup failed: two calls, no retry
C12_Witness ==
    /\ pc = "done" /\ ret.kind = "ok"
    /\ Len(job.fd.matches) = 2
    /\ job.fd.matches[1] = job.fd.matches[2]
    /\ calls = <<1, 2>>
    /\ Len(resps) = 2
    /\ resps[1].o.status = 500

(***************************************************************************)
(* Properties of the classification                                        *)
(***************************************************************************)
\* broker minus market, as the sign of the cross product (both are positive)
RateOrder(b, m) == b.n * m.d - m.n * b.d

\* C13: with both rates present and positive, the classification follows the
\* sign of the unrounded difference: "above market" iff broker > market,
\* "below market" iff broker < market, "at market" iff they are equal; the
\* reported difference is that percentage rounded to 2 decimals, so a pair
\* whose difference rounds to 0.00 without being 0 is still above or below.
C13_SignOfUnroundedDifference ==
    (out.fn = "get_rate_comparison" /\ ~Unusable(loadRate) /\ ~Unusable(marketRate)) =>
        /\ out.cmp.comparison \in
               {"above market rate", "below market rate", "At market rate"}
        /\ out.cmp.comparison = "above market rate" <=> RateOrder(loadRate, marketRate) > 0
        /\ out.cmp.comparison = "below market rate" <=> RateOrder(loadRate, marketRate) < 0
        /\ out.cmp.comparison = "At market rate" <=> RateOrder(loadRate, marketRate) = 0
        /\ out.cmp.difference_percentage.t = "num"
        /\ IsRounded(out.cmp.difference_percentage.v,
                     RateOrder(loadRate, marketRate) * 10000, marketRate.n * loadRate.d)

\* broker 30001/30000 against market 1: shown as 0.00 and labelled above market
C13_Witness ==
    /\ out.fn = "get_rate_comparison"
    /\ loadRate = Rate(30001, 30000)
    /\ marketRate = Rate(1, 1)
    /\ out.cmp.difference_percentage = [t |-> "num", v |-> 0]
    /\ out.cmp.comparison = "above market rate"

====
